---- MODULE Spec2Model ----
(***************************************************************************)
(* A model of the unified2 log decoder (src/unified2.go): the record       *)
(* framer ReadRawRecord, the dispatcher ReadRecord and the three payload   *)
(* decoders, together with a writer that appends well-framed records to    *)
(* the file the reader is tailing.                                         *)
(*                                                                         *)
(* The stream is a regular file (os.File, as in the package example): a    *)
(* Read of n > 0 bytes returns min(n, available) bytes, or (0, io.EOF)     *)
(* when none is available, and a Read of 0 bytes returns (0, nil).         *)
(* The reader's system calls interleave with the writer's appends, so      *)
(* ReadRawRecord is modelled call by call: Seek, the Reads of io.ReadFull  *)
(* for the header, the Read of the body.                                   *)
(***************************************************************************)
EXTENDS Integers, Sequences, FiniteSets, TLC

VARIABLES plan, file, pos, pc, api, offset, hbuf, result, got, failed,
          dIn, dOut

vars == <<plan, file, pos, pc, api, offset, hbuf, result, got, failed,
          dIn, dOut>>

streamVars == <<plan, file, pos, pc, api, offset, hbuf, result, got, failed>>

decVars == <<dIn, dOut>>

(***************************************************************************)
(* Bounds of the model.                                                    *)
(***************************************************************************)
\* records the writer appends in one run
MaxRecs == 2

\* bytes the writer appends in one write
MaxChunk == 3

\* bytes a decoder input carries beyond the decoder's fixed layout
MaxPad == 3

\* the tuples of field values a decoder input is built from: 0..MaxSeed
MaxSeed == 2

(***************************************************************************)
(* Program constants.                                                      *)
(***************************************************************************)
UNIFIED2_PACKET == 2

UNIFIED2_IDS_EVENT == 7

UNIFIED2_IDS_EVENT_IP6 == 72

UNIFIED2_IDS_EVENT_V2 == 104

UNIFIED2_IDS_EVENT_IP6_V2 == 105

UNIFIED2_EXTRA_DATA == 110

PACKET_RECORD_HDR_LEN == 28

EXTRA_DATA_RECORD_HDR_LEN == 32

\* binary.Size(RawHeader): two uint32
RawHeaderSize == 8

Nil == [nil |-> TRUE]

Min(a, b) == IF a < b THEN a ELSE b

(***************************************************************************)
(* encoding/binary, big endian.                                            *)
(***************************************************************************)
RECURSIVE Pow256(_)
Pow256(n) == IF n = 0 THEN 1 ELSE 256 * Pow256(n - 1)

\* binary.BigEndian.Uint16 / Uint32 (and the single byte of a uint8)
RECURSIVE Uint(_)
Uint(bs) ==
    IF Len(bs) = 0 THEN 0
    ELSE bs[1] * Pow256(Len(bs) - 1) + Uint(Tail(bs))

\* what a writer puts on the wire for an n-byte unsigned integer
PutUint(v, n) == [i \in 1..n |-> (v \div Pow256(n - i)) % 256]

\* data[from:] of a Go slice (from is 0-based)
SliceFrom(data, from) == SubSeq(data, from + 1, Len(data))

(***************************************************************************)
(* The payload decoders.  Each reads its fields one after the other from   *)
(* a bytes.Buffer over the payload and gives up at the first short read.   *)
(***************************************************************************)
\* the successive read(reader, &field) calls: each takes the next
\* Head(sizes) bytes of the buffer, or fails and ends the decoding
RECURSIVE ReadFields(_, _)
ReadFields(data, sizes) ==
    IF sizes = <<>> THEN [ok |-> TRUE, vals |-> <<>>]
    ELSE IF Len(data) < Head(sizes) THEN [ok |-> FALSE, vals |-> <<>>]
    ELSE LET rest == ReadFields(SliceFrom(data, Head(sizes)), Tail(sizes))
         IN  [ok   |-> rest.ok,
              vals |-> IF rest.ok
                       THEN <<SubSeq(data, 1, Head(sizes))>> \o rest.vals
                       ELSE <<>>]

\* a decoder that forgot the IPv6 case: every event has 4-byte addresses
EventAddrLenV4Only(eventType) ==
    IF eventType \in {UNIFIED2_IDS_EVENT, UNIFIED2_IDS_EVENT_IP6,
                      UNIFIED2_IDS_EVENT_V2, UNIFIED2_IDS_EVENT_IP6_V2}
    THEN 4
    ELSE 0

\* make([]byte, 4) or make([]byte, 16); 0: no address is read at all
EventAddrLen(eventType) ==
    IF eventType \in {UNIFIED2_IDS_EVENT, UNIFIED2_IDS_EVENT_V2} THEN 4
    ELSE IF eventType \in {UNIFIED2_IDS_EVENT_IP6, UNIFIED2_IDS_EVENT_IP6_V2}
         THEN 16
         ELSE 0

\* a decoder that reads the MPLS/VLAN trailer of every event
EventHasV2Always(eventType) == TRUE

\* the second switch: MplsLabel and VlanId are read for the V2 types only
EventHasV2(eventType) ==
    eventType \in {UNIFIED2_IDS_EVENT_V2, UNIFIED2_IDS_EVENT_IP6_V2}

\* the sizes of the fields DecodeEventRecord reads, in the order it reads them
EventLayout(eventType) ==
    <<4, 4, 4, 4, 4, 4, 4, 4, 4>>
    \o (IF EventAddrLen(eventType) = 0 THEN <<>>
        ELSE <<EventAddrLen(eventType), EventAddrLen(eventType)>>)
    \o <<2, 2, 1, 1, 1, 1>>
    \o (IF EventHasV2(eventType) THEN <<4, 2>> ELSE <<>>)

DecodeEventRecord(eventType, data) ==
    LET r == ReadFields(data, EventLayout(eventType))
        a == IF EventAddrLen(eventType) = 0 THEN 0 ELSE 2
        v == r.vals
    IN  IF ~r.ok THEN [err |-> "DecodingError", val |-> Nil]
        ELSE [err |-> "nil",
              val |-> [kind              |-> "EventRecord",
                       SensorId          |-> Uint(v[1]),
                       EventId           |-> Uint(v[2]),
                       EventSecond       |-> Uint(v[3]),
                       EventMicrosecond  |-> Uint(v[4]),
                       SignatureId       |-> Uint(v[5]),
                       GeneratorId       |-> Uint(v[6]),
                       SignatureRevision |-> Uint(v[7]),
                       ClassificationId  |-> Uint(v[8]),
                       Priority          |-> Uint(v[9]),
                       IpSource          |-> IF a = 0 THEN <<>> ELSE v[10],
                       IpDestination     |-> IF a = 0 THEN <<>> ELSE v[11],
                       SportItype        |-> Uint(v[9 + a + 1]),
                       DportIcode        |-> Uint(v[9 + a + 2]),
                       Protocol          |-> Uint(v[9 + a + 3]),
                       ImpactFlag        |-> Uint(v[9 + a + 4]),
                       Impact            |-> Uint(v[9 + a + 5]),
                       Blocked           |-> Uint(v[9 + a + 6]),
                       MplsLabel         |-> IF EventHasV2(eventType)
                                             THEN Uint(v[9 + a + 7]) ELSE 0,
                       VlanId            |-> IF EventHasV2(eventType)
                                             THEN Uint(v[9 + a + 8]) ELSE 0]]

\* a decoder that slices the tail by the record's own Length field
PacketTailByLength(data) ==
    SubSeq(data, PACKET_RECORD_HDR_LEN + 1,
           Min(Len(data), PACKET_RECORD_HDR_LEN + Uint(SubSeq(data, 25, 28))))

\* packet.Data = data[PACKET_RECORD_HDR_LEN:]
PacketTail(data) == SliceFrom(data, PACKET_RECORD_HDR_LEN)

DecodePacketRecord(data) ==
    LET r == ReadFields(data, <<4, 4, 4, 4, 4, 4, 4>>)
        v == r.vals
    IN  IF ~r.ok THEN [err |-> "DecodingError", val |-> Nil]
        ELSE [err |-> "nil",
              val |-> [kind              |-> "PacketRecord",
                       SensorId          |-> Uint(v[1]),
                       EventId           |-> Uint(v[2]),
                       EventSecond       |-> Uint(v[3]),
                       PacketSecond      |-> Uint(v[4]),
                       PacketMicrosecond |-> Uint(v[5]),
                       LinkType          |-> Uint(v[6]),
                       Length            |-> Uint(v[7]),
                       Data              |-> PacketTail(data)]]

\* extra.Data = data[EXTRA_DATA_RECORD_HDR_LEN:]
ExtraDataTail(data) == SliceFrom(data, EXTRA_DATA_RECORD_HDR_LEN)

DecodeExtraDataRecord(data) ==
    LET r == ReadFields(data, <<4, 4, 4, 4, 4, 4, 4, 4>>)
        v == r.vals
    IN  IF ~r.ok THEN [err |-> "DecodingError", val |-> Nil]
        ELSE [err |-> "nil",
              val |-> [kind        |-> "ExtraDataRecord",
                       EventType   |-> Uint(v[1]),
                       EventLength |-> Uint(v[2]),
                       SensorId    |-> Uint(v[3]),
                       EventId     |-> Uint(v[4]),
                       EventSecond |-> Uint(v[5]),
                       Type        |-> Uint(v[6]),
                       DataType    |-> Uint(v[7]),
                       DataLength  |-> Uint(v[8]),
                       Data        |-> ExtraDataTail(data)]]

\* a dispatcher whose switch misses UNIFIED2_IDS_EVENT_IP6_V2
DecodeByTypeNoIP6V2(type, data) ==
    IF type \in {UNIFIED2_IDS_EVENT, UNIFIED2_IDS_EVENT_IP6,
                 UNIFIED2_IDS_EVENT_V2}
    THEN DecodeEventRecord(type, data)
    ELSE IF type = UNIFIED2_PACKET THEN DecodePacketRecord(data)
    ELSE IF type = UNIFIED2_EXTRA_DATA THEN DecodeExtraDataRecord(data)
    ELSE [err |-> "nil", val |-> Nil]

\* the switch of ReadRecord on record.Type; [err nil, val Nil] is
\* "decoded == nil": no case of the switch matched
DecodeByType(type, data) ==
    IF type \in {UNIFIED2_IDS_EVENT, UNIFIED2_IDS_EVENT_IP6,
                 UNIFIED2_IDS_EVENT_V2, UNIFIED2_IDS_EVENT_IP6_V2}
    THEN DecodeEventRecord(type, data)
    ELSE IF type = UNIFIED2_PACKET THEN DecodePacketRecord(data)
    ELSE IF type = UNIFIED2_EXTRA_DATA THEN DecodeExtraDataRecord(data)
    ELSE [err |-> "nil", val |-> Nil]

\* what ReadRecord returns once ReadRawRecord has returned record (type, data)
ReadRecordReturn(type, data) ==
    LET d == DecodeByType(type, data)
    IN  IF d.err # "nil" THEN [err |-> d.err, val |-> Nil]
        ELSE IF d.val # Nil
             THEN [err |-> "nil", val |-> [Type |-> type, Record |-> d.val]]
             ELSE [err |-> "nil", val |-> Nil]

(***************************************************************************)
(* The records a writer appends.  A record is well framed: its header      *)
(* carries its type and the exact length of its body.  The bodies of the   *)
(* pool cover every type of the dispatcher, payloads too short for their   *)
(* decoder, an empty body and a type that only shares its low byte with an *)
(* event type.                                                             *)
(***************************************************************************)
\* TLC's integers are 32 bits signed: the bytes of the model stay below 128,
\* so that every uint32 read from them is below 2^31
Body(seed, len) == [i \in 1..len |-> (seed * 16 + 7 * i) % 128]

Pool ==
    << [Type |-> 3,   Data |-> <<>>],
       [Type |-> UNIFIED2_IDS_EVENT, Data |-> Body(1, 52)],
       [Type |-> 263, Data |-> Body(2, 3)],
       [Type |-> UNIFIED2_PACKET, Data |-> Body(3, 30)],
       [Type |-> UNIFIED2_IDS_EVENT_V2, Data |-> Body(4, 57)],
       [Type |-> UNIFIED2_EXTRA_DATA, Data |-> Body(5, 33)],
       [Type |-> UNIFIED2_IDS_EVENT_IP6, Data |-> Body(6, 76)],
       [Type |-> UNIFIED2_PACKET, Data |-> Body(7, 5)],
       [Type |-> UNIFIED2_IDS_EVENT_IP6_V2, Data |-> Body(8, 82)],
       [Type |-> UNIFIED2_EXTRA_DATA, Data |-> Body(9, 20)],
       [Type |-> UNIFIED2_IDS_EVENT_V2, Data |-> Body(10, 58)] >>

\* the n records of the pool from the s-th on, cyclically
Window(s, n) == [i \in 1..n |-> Pool[((s + i - 2) % Len(Pool)) + 1]]

Plans == {Window(s, n) : s \in 1..Len(Pool), n \in 1..MaxRecs}

\* the bytes of one record on the wire
Frame(rec) == PutUint(rec.Type, 4) \o PutUint(Len(rec.Data), 4) \o rec.Data

RECURSIVE Wire(_)
Wire(recs) == IF recs = <<>> THEN <<>> ELSE Frame(Head(recs)) \o Wire(Tail(recs))

\* the offset of the end of the i-th record of recs (0 for i = 0)
RECURSIVE Boundary(_, _)
Boundary(recs, i) ==
    IF i = 0 THEN 0
    ELSE Boundary(recs, i - 1) + RawHeaderSize + Len(recs[i].Data)

(***************************************************************************)
(* The record framer.                                                      *)
(***************************************************************************)
\* file.Read(buf) with len(buf) = n, at position p of a regular file f
FileRead(f, p, n) ==
    IF n = 0 THEN [n |-> 0, err |-> "nil", bytes |-> <<>>]
    ELSE IF Len(f) - p <= 0 THEN [n |-> 0, err |-> "EOF", bytes |-> <<>>]
    ELSE [n     |-> Min(n, Len(f) - p),
          err   |-> "nil",
          bytes |-> SubSeq(f, p + 1, p + Min(n, Len(f) - p))]

\* a framer that takes the header's fields in the wrong order
DecodeHeaderSwapped(bs) ==
    [Type |-> Uint(SubSeq(bs, 5, 8)), Len |-> Uint(SubSeq(bs, 1, 4))]

\* binary.Read into RawHeader: Type, then Len, big endian
DecodeHeader(bs) == [Type |-> Uint(SubSeq(bs, 1, 4)), Len |-> Uint(SubSeq(bs, 5, 8))]

\* a framer that does not seek back after a short header
HeaderFailureNoSeek(hn, off, p) ==
    [pos |-> p,
     err |-> IF hn = 0 THEN "EOF" ELSE "ErrUnexpectedEOF",
     val |-> Nil]

\* the end of the header read: io.ReadFull had hn bytes when a Read returned
\* (0, io.EOF); the offset is restored and the error returned
HeaderFailure(hn, off, p) ==
    [pos |-> off,
     err |-> IF hn = 0 THEN "EOF" ELSE "ErrUnexpectedEOF",
     val |-> Nil]

\* a framer that does not seek back after a short body
BodyOutcomeNoSeek(hdr, rd, off, p) ==
    IF rd.err # "nil" THEN [pos |-> p, err |-> rd.err, val |-> Nil]
    ELSE IF rd.n # hdr.Len
         THEN [pos |-> p + rd.n, err |-> "ErrUnexpectedEOF", val |-> Nil]
         ELSE [pos |-> p + rd.n,
               err |-> "nil",
               val |-> [Type |-> hdr.Type, Data |-> rd.bytes]]

\* a framer that takes whatever one Read returned for the whole body
BodyOutcomeNoLenCheck(hdr, rd, off, p) ==
    IF rd.err # "nil" THEN [pos |-> off, err |-> rd.err, val |-> Nil]
    ELSE [pos |-> p + rd.n,
          err |-> "nil",
          val |-> [Type |-> hdr.Type, Data |-> rd.bytes]]

\* ReadRawRecord after file.Read(data) returned rd at position p, for the
\* header hdr of a call entered at offset off
BodyOutcome(hdr, rd, off, p) ==
    IF rd.err # "nil" THEN [pos |-> off, err |-> rd.err, val |-> Nil]
    ELSE IF rd.n # hdr.Len
         THEN [pos |-> off, err |-> "ErrUnexpectedEOF", val |-> Nil]
         ELSE [pos |-> p + rd.n,
               err |-> "nil",
               val |-> [Type |-> hdr.Type, Data |-> rd.bytes]]

NoDec == [kind |-> "none"]

Init ==
    /\ plan \in Plans
    /\ file = <<>>
    /\ pos = 0
    /\ pc = "idle"
    /\ api = "ReadRawRecord"
    /\ offset = 0
    /\ hbuf = <<>>
    /\ result = [err |-> "none", val |-> Nil, retried |-> FALSE]
    /\ got = <<>>
    /\ failed = FALSE
    /\ dIn = NoDec
    /\ dOut = NoDec

\* the writer appends the next k bytes of its records
Write(k) ==
    /\ Len(file) + k <= Len(Wire(plan))
    /\ file' = file \o SubSeq(Wire(plan), Len(file) + 1, Len(file) + k)
    /\ UNCHANGED <<plan, pos, pc, api, offset, hbuf, result, got, failed>>
    /\ UNCHANGED decVars

\* the reader enters ReadRawRecord, directly or from ReadRecord:
\* offset, _ := file.Seek(0, 1)
Call(a) ==
    /\ pc = "idle"
    /\ api' = a
    /\ offset' = pos
    /\ hbuf' = <<>>
    /\ pc' = "header"
    /\ UNCHANGED <<plan, file, pos, result, got, failed>>
    /\ UNCHANGED decVars

\* one Read of the io.ReadFull inside binary.Read(file, BigEndian, &header)
ReadHeader ==
    /\ pc = "header"
    /\ LET rd == FileRead(file, pos, RawHeaderSize - Len(hbuf))
       IN  IF rd.err # "nil"
           THEN LET out == HeaderFailure(Len(hbuf), offset, pos)
                IN  /\ pos' = out.pos
                    /\ result' = [err |-> out.err, val |-> out.val,
                                  retried |-> FALSE]
                    /\ failed' = TRUE
                    /\ pc' = "idle"
                    /\ hbuf' = <<>>
           ELSE /\ hbuf' = hbuf \o rd.bytes
                /\ pos' = pos + rd.n
                /\ pc' = IF Len(hbuf) + rd.n = RawHeaderSize
                         THEN "body" ELSE "header"
                /\ UNCHANGED <<result, failed>>
    /\ UNCHANGED <<plan, file, api, offset, got>>
    /\ UNCHANGED decVars

\* n, err := file.Read(data), the checks that follow it, and for ReadRecord
\* the decoding of the record ReadRawRecord returned
ReadBody ==
    /\ pc = "body"
    /\ LET hdr == DecodeHeader(hbuf)
           rd  == FileRead(file, pos, hdr.Len)
           out == BodyOutcome(hdr, rd, offset, pos)
       IN  /\ pos' = out.pos
           /\ IF out.err # "nil"
              THEN /\ result' = [err |-> out.err, val |-> Nil,
                                 retried |-> FALSE]
                   /\ failed' = TRUE
                   /\ got' = got
              ELSE /\ got' = Append(got, out.val)
                   /\ failed' = FALSE
                   /\ result' =
                        IF api = "ReadRawRecord"
                        THEN [err |-> "nil", val |-> out.val,
                              retried |-> failed]
                        ELSE LET r == ReadRecordReturn(out.val.Type,
                                                       out.val.Data)
                             IN  [err |-> r.err, val |-> r.val,
                                  retried |-> failed]
    /\ pc' = "idle"
    /\ hbuf' = <<>>
    /\ UNCHANGED <<plan, file, api, offset>>
    /\ UNCHANGED decVars

Next ==
    \/ \E k \in 1..MaxChunk : Write(k)
    \/ \E a \in {"ReadRawRecord", "ReadRecord"} : Call(a)
    \/ ReadHeader
    \/ ReadBody

Spec == Init /\ [][Next]_vars

\* the runs of the fair reader and writer: the records with the shortest
\* bodies of the pool (none and 3 bytes), in any order
ShortPool == <<Pool[1], Pool[3]>>

RECURSIVE SeqsOver(_, _)
SeqsOver(S, n) ==
    IF n = 0 THEN {<<>>}
    ELSE {Append(q, x) : q \in SeqsOver(S, n - 1), x \in S}

ShortPlans ==
    UNION {SeqsOver({ShortPool[j] : j \in 1..Len(ShortPool)}, n) : n \in 1..MaxRecs}

LiveInit ==
    /\ plan \in ShortPlans
    /\ file = <<>>
    /\ pos = 0
    /\ pc = "idle"
    /\ api = "ReadRawRecord"
    /\ offset = 0
    /\ hbuf = <<>>
    /\ result = [err |-> "none", val |-> Nil, retried |-> FALSE]
    /\ got = <<>>
    /\ failed = FALSE
    /\ dIn = NoDec
    /\ dOut = NoDec

\* a reader that tails the file with ReadRawRecord
LiveNext ==
    \/ \E k \in 1..MaxChunk : Write(k)
    \/ Call("ReadRawRecord")
    \/ ReadHeader
    \/ ReadBody

\* the reader keeps calling and the writer keeps writing
LiveSpec ==
    /\ LiveInit
    /\ [][LiveNext]_vars
    /\ WF_vars(\E k \in 1..MaxChunk : Write(k))
    /\ WF_vars(Call("ReadRawRecord"))
    /\ WF_vars(ReadHeader)
    /\ WF_vars(ReadBody)

(***************************************************************************)
(* The decoders on their own: the payloads a caller may hand them.  A      *)
(* payload is what a producer writes for a tuple of field values (the wire *)
(* format: every integer big endian, in the order of the layout), cut or   *)
(* padded to any length.                                                   *)
(***************************************************************************)
EventTags == {UNIFIED2_IDS_EVENT, UNIFIED2_IDS_EVENT_IP6,
              UNIFIED2_IDS_EVENT_V2, UNIFIED2_IDS_EVENT_IP6_V2}

\* the i-th field value of tuple s; every uint32 stays below 2^31
V32(s, i) == s * 305419896 + i * 16843009

V16(s, i) == (s * 4660 + i * 257) % 65536

V8(s, i) == (s * 50 + i * 17) % 256

\* bytes copied verbatim: addresses, tails and padding
VAddr(s, i, n) == [j \in 1..n |-> (s * 40 + i * 100 + j * 9) % 128]

EventValues(tag, s) ==
    [kind              |-> "EventRecord",
     SensorId          |-> V32(s, 1),
     EventId           |-> V32(s, 2),
     EventSecond       |-> V32(s, 3),
     EventMicrosecond  |-> V32(s, 4),
     SignatureId       |-> V32(s, 5),
     GeneratorId       |-> V32(s, 6),
     SignatureRevision |-> V32(s, 7),
     ClassificationId  |-> V32(s, 8),
     Priority          |-> V32(s, 9),
     IpSource          |-> VAddr(s, 1, IF tag \in {7, 104} THEN 4 ELSE 16),
     IpDestination     |-> VAddr(s, 2, IF tag \in {7, 104} THEN 4 ELSE 16),
     SportItype        |-> V16(s, 1),
     DportIcode        |-> V16(s, 2),
     Protocol          |-> V8(s, 1),
     ImpactFlag        |-> V8(s, 2),
     Impact            |-> V8(s, 3),
     Blocked           |-> V8(s, 4),
     MplsLabel         |-> IF tag \in {104, 105} THEN V32(s, 10) ELSE 0,
     VlanId            |-> IF tag \in {104, 105} THEN V16(s, 3) ELSE 0]

EncodeEvent(tag, ev) ==
    PutUint(ev.SensorId, 4) \o PutUint(ev.EventId, 4)
    \o PutUint(ev.EventSecond, 4) \o PutUint(ev.EventMicrosecond, 4)
    \o PutUint(ev.SignatureId, 4) \o PutUint(ev.GeneratorId, 4)
    \o PutUint(ev.SignatureRevision, 4) \o PutUint(ev.ClassificationId, 4)
    \o PutUint(ev.Priority, 4)
    \o ev.IpSource \o ev.IpDestination
    \o PutUint(ev.SportItype, 2) \o PutUint(ev.DportIcode, 2)
    \o PutUint(ev.Protocol, 1) \o PutUint(ev.ImpactFlag, 1)
    \o PutUint(ev.Impact, 1) \o PutUint(ev.Blocked, 1)
    \o (IF tag \in {104, 105}
        THEN PutUint(ev.MplsLabel, 4) \o PutUint(ev.VlanId, 2)
        ELSE <<>>)

\* the declared length is any value, the tail any length
PacketValues(s, declared, n) ==
    [kind              |-> "PacketRecord",
     SensorId          |-> V32(s, 1),
     EventId           |-> V32(s, 2),
     EventSecond       |-> V32(s, 3),
     PacketSecond      |-> V32(s, 4),
     PacketMicrosecond |-> V32(s, 5),
     LinkType          |-> V32(s, 6),
     Length            |-> declared,
     Data              |-> VAddr(s, 3, n)]

EncodePacket(pk) ==
    PutUint(pk.SensorId, 4) \o PutUint(pk.EventId, 4)
    \o PutUint(pk.EventSecond, 4) \o PutUint(pk.PacketSecond, 4)
    \o PutUint(pk.PacketMicrosecond, 4) \o PutUint(pk.LinkType, 4)
    \o PutUint(pk.Length, 4) \o pk.Data

ExtraDataValues(s, declared, n) ==
    [kind        |-> "ExtraDataRecord",
     EventType   |-> V32(s, 1),
     EventLength |-> V32(s, 2),
     SensorId    |-> V32(s, 3),
     EventId     |-> V32(s, 4),
     EventSecond |-> V32(s, 5),
     Type        |-> V32(s, 6),
     DataType    |-> V32(s, 7),
     DataLength  |-> declared,
     Data        |-> VAddr(s, 4, n)]

EncodeExtraData(ex) ==
    PutUint(ex.EventType, 4) \o PutUint(ex.EventLength, 4)
    \o PutUint(ex.SensorId, 4) \o PutUint(ex.EventId, 4)
    \o PutUint(ex.EventSecond, 4) \o PutUint(ex.Type, 4)
    \o PutUint(ex.DataType, 4) \o PutUint(ex.DataLength, 4) \o ex.Data

\* the first n bytes of bs followed by MaxPad more bytes
Cut(bs, n) == SubSeq(bs \o VAddr(7, 7, MaxPad), 1, n)

\* the declared lengths tried for a tail of n bytes: the true one and others
Declared(n) == {0, n, n + 1, 1000}

DecInputs ==
    UNION {{[kind |-> "event", tag |-> t, values |-> EventValues(t, s),
             data |-> Cut(EncodeEvent(t, EventValues(t, s)), n)] :
                n \in 0..(Len(EncodeEvent(t, EventValues(t, s))) + MaxPad)} :
           t \in EventTags, s \in 0..MaxSeed}
    \cup
    UNION {{[kind |-> "packet", tag |-> UNIFIED2_PACKET,
             values |-> PacketValues(s, d, m),
             data |-> SubSeq(EncodePacket(PacketValues(s, d, m)), 1, n)] :
                d \in Declared(m), n \in 0..(PACKET_RECORD_HDR_LEN + m)} :
           s \in 0..MaxSeed, m \in 0..MaxPad}
    \cup
    UNION {{[kind |-> "extra", tag |-> UNIFIED2_EXTRA_DATA,
             values |-> ExtraDataValues(s, d, m),
             data |-> SubSeq(EncodeExtraData(ExtraDataValues(s, d, m)), 1, n)] :
                d \in Declared(m), n \in 0..(EXTRA_DATA_RECORD_HDR_LEN + m)} :
           s \in 0..MaxSeed, m \in 0..MaxPad}

DecInit ==
    /\ plan = <<>>
    /\ file = <<>>
    /\ pos = 0
    /\ pc = "idle"
    /\ api = "ReadRawRecord"
    /\ offset = 0
    /\ hbuf = <<>>
    /\ result = [err |-> "none", val |-> Nil, retried |-> FALSE]
    /\ got = <<>>
    /\ failed = FALSE
    /\ dIn \in DecInputs
    /\ dOut = NoDec

CallDecodeEventRecord ==
    /\ dIn.kind = "event"
    /\ dOut = NoDec
    /\ dOut' = DecodeEventRecord(dIn.tag, dIn.data)
    /\ UNCHANGED dIn
    /\ UNCHANGED streamVars

CallDecodePacketRecord ==
    /\ dIn.kind = "packet"
    /\ dOut = NoDec
    /\ dOut' = DecodePacketRecord(dIn.data)
    /\ UNCHANGED dIn
    /\ UNCHANGED streamVars

CallDecodeExtraDataRecord ==
    /\ dIn.kind = "extra"
    /\ dOut = NoDec
    /\ dOut' = DecodeExtraDataRecord(dIn.data)
    /\ UNCHANGED dIn
    /\ UNCHANGED streamVars

DecNext ==
    \/ CallDecodeEventRecord
    \/ CallDecodePacketRecord
    \/ CallDecodeExtraDataRecord

DecSpec == DecInit /\ [][DecNext]_vars

(***************************************************************************)
(* The framer's and the dispatcher's claims, under Spec and LiveSpec.      *)
(***************************************************************************)
\* a call has returned and no other is under way
Returned(a) == pc = "idle" /\ api = a /\ result.err # "none"

\* the record the last successful ReadRawRecord was positioned at, as written
LastWritten == plan[Len(got)]

\* C1: for every interleaving of the writer's appends, in any chunks, with
\* the reader's calls, the records ReadRawRecord has returned so far are a
\* prefix of the records written, in order, each with its type and body.
ReturnedIsPrefixOfWritten ==
    /\ Len(got) <= Len(plan)
    /\ \A i \in 1..Len(got) : got[i] = plan[i]

\* both records of a run were returned, the last one after a failed attempt
ReturnedIsPrefixOfWrittenWitness ==
    /\ Len(plan) = 2
    /\ Len(got) = 2
    /\ Returned("ReadRawRecord")
    /\ result.retried
    /\ Len(got[2].Data) > 0

\* C2: when the file holds a complete header declaring L > 0 and b < L body
\* bytes, ReadRawRecord returns io.ErrUnexpectedEOF and the position is the
\* one at entry.
ShortBodyIsIncomplete ==
    [][(/\ pc = "body"
        /\ pc' = "idle"
        /\ DecodeHeader(hbuf).Len > 0
        /\ Len(file) - pos < DecodeHeader(hbuf).Len)
       => (result'.err = "ErrUnexpectedEOF" /\ pos' = offset)]_vars

\* C3: a ReadRawRecord that returns no record leaves the position where it
\* was at entry; a successful one moves it by exactly 8 + length.
RawFailureRestoresPosition ==
    Returned("ReadRawRecord")
    => /\ result.err # "nil" => pos = offset /\ result.val = Nil
       /\ result.err = "nil"
            => /\ pos = offset + 8 + Len(LastWritten.Data)
               /\ result.val = LastWritten

\* a call that had read a part of the header before it ran out of bytes
RawFailureRestoresPositionWitness ==
    /\ Returned("ReadRawRecord")
    /\ result.err = "ErrUnexpectedEOF"
    /\ Len(file) - pos \in 1..7
    /\ pos > 0

\* C4, as stated: a ReadRecord that returns io.EOF, io.ErrUnexpectedEOF or
\* DecodingError leaves the position where it was at entry.
RecordFailureRestoresPosition ==
    (Returned("ReadRecord")
     /\ result.err \in {"EOF", "ErrUnexpectedEOF", "DecodingError"})
    => pos = offset

\* C4, amended: a ReadRecord that returns io.EOF or io.ErrUnexpectedEOF
\* leaves the position where it was at entry; one that returns DecodingError
\* has consumed the record: the position is 8 + length past the entry.
RecordFramingFailureRestoresPosition ==
    Returned("ReadRecord")
    => /\ result.err \in {"EOF", "ErrUnexpectedEOF"} => pos = offset
       /\ result.err = "DecodingError"
            => pos = offset + 8 + Len(LastWritten.Data)

\* a ReadRecord that framed a record its decoder rejected, after an earlier
\* attempt at the same offset had found the record incomplete
RecordFramingFailureRestoresPositionWitness ==
    /\ Returned("ReadRecord")
    /\ result.err = "DecodingError"
    /\ result.retried
    /\ pos > offset

\* C5: ReadRecord routes a framed record by its type only: 7, 72, 104 and
\* 105 to DecodeEventRecord, 2 to DecodePacketRecord, 110 to
\* DecodeExtraDataRecord, the container carrying the type; any other type
\* gives (nil, nil), which no recognized type gives.
RoutesByType ==
    (Returned("ReadRecord") /\ result.err \in {"nil", "DecodingError"})
    => LET t == LastWritten.Type
           d == IF t \in {7, 72, 104, 105}
                THEN DecodeEventRecord(t, LastWritten.Data)
                ELSE IF t = 2 THEN DecodePacketRecord(LastWritten.Data)
                ELSE DecodeExtraDataRecord(LastWritten.Data)
       IN  /\ t \in {7, 72, 104, 105, 2, 110}
                => /\ result.err = d.err
                   /\ d.err = "nil"
                        => result.val = [Type |-> t, Record |-> d.val]
                   /\ d.err # "nil" => result.val = Nil
           /\ t \notin {7, 72, 104, 105, 2, 110}
                => result.err = "nil" /\ result.val = Nil
           /\ (result.err = "nil" /\ result.val = Nil)
                => t \notin {7, 72, 104, 105, 2, 110}

\* a record whose type shares its low byte with an event type is Unknown
RoutesByTypeWitness ==
    /\ Returned("ReadRecord")
    /\ result.err = "nil"
    /\ result.val = Nil
    /\ LastWritten.Type = 263

\* an IPv6 version 2 event reaches the event decoder
RoutesByTypeEventWitness ==
    /\ Returned("ReadRecord")
    /\ result.err = "nil"
    /\ result.val # Nil
    /\ result.val.Type = 105
    /\ result.val.Record.kind = "EventRecord"

\* C9: between calls of ReadRecord and ReadRawRecord, whatever they returned,
\* the position is the end of some prefix of the written records.
PositionAtRecordBoundary ==
    pc = "idle" => \E i \in 0..Len(plan) : pos = Boundary(plan, i)

\* the position after a record that failed to decode and one that did not
PositionAtRecordBoundaryWitness ==
    /\ Returned("ReadRecord")
    /\ result.err = "DecodingError"
    /\ Len(got) = 2
    /\ pos = Boundary(plan, 2)

\* C10: a reader that calls again after every io.EOF and io.ErrUnexpectedEOF,
\* while the writer appends the rest of the record, eventually gets the
\* record at its offset, with its type and body.
RetryEventuallySucceeds ==
    \A i \in 1..MaxRecs :
        (/\ Len(plan) >= i
         /\ Len(got) = i - 1
         /\ pc = "idle"
         /\ result.err \in {"EOF", "ErrUnexpectedEOF"})
        ~> (Len(got) >= i /\ got[i] = plan[i])

\* a record returned by a call that followed a failed one at the same offset
RetryEventuallySucceedsWitness ==
    /\ Returned("ReadRawRecord")
    /\ result.err = "nil"
    /\ result.retried
    /\ result.val = LastWritten
    /\ Len(file) = Len(Wire(plan))

(***************************************************************************)
(* The decoders' claims, under DecSpec.                                    *)
(***************************************************************************)
Decoded == dOut # NoDec

\* C6: for each of the four event tags and every tuple of field values,
\* DecodeEventRecord applied to the big-endian body built from the values in
\* wire order returns an EventRecord with exactly those values, addresses of
\* 4 bytes for tags 7 and 104 and of 16 bytes for tags 72 and 105, and MPLS
\* label and VLAN id zero for tags 7 and 72.
EventRoundTrip ==
    (/\ dIn.kind = "event"
     /\ Decoded
     /\ dIn.data = EncodeEvent(dIn.tag, dIn.values))
    => /\ dOut.err = "nil"
       /\ dOut.val = dIn.values
       /\ Len(dOut.val.IpSource) = (IF dIn.tag \in {7, 104} THEN 4 ELSE 16)
       /\ Len(dOut.val.IpDestination) = (IF dIn.tag \in {7, 104} THEN 4 ELSE 16)
       /\ dIn.tag \in {7, 72} => dOut.val.MplsLabel = 0 /\ dOut.val.VlanId = 0

\* an IPv6 version 2 event with multi-byte values in every field is decoded
EventRoundTripWitness ==
    /\ dIn.kind = "event"
    /\ Decoded
    /\ dIn.tag = 105
    /\ dIn.data = EncodeEvent(dIn.tag, dIn.values)
    /\ dOut.err = "nil"
    /\ dOut.val.SensorId > 16777216
    /\ dOut.val.VlanId > 256
    /\ dOut.val.MplsLabel # dOut.val.Priority

\* C7: for each event tag DecodeEventRecord succeeds if and only if the body
\* has at least N bytes, N = 52 for tag 7, 76 for tag 72, 58 for tag 104 and
\* 82 for tag 105; for every shorter body the result is DecodingError and no
\* EventRecord.
EventLengthThreshold ==
    (dIn.kind = "event" /\ Decoded)
    => LET N == CASE dIn.tag = 7 -> 52
                  [] dIn.tag = 72 -> 76
                  [] dIn.tag = 104 -> 58
                  [] dIn.tag = 105 -> 82
       IN  /\ (dOut.err = "nil") <=> (Len(dIn.data) >= N)
           /\ Len(dIn.data) >= N => dOut.val.kind = "EventRecord"
           /\ Len(dIn.data) < N
                => dOut.err = "DecodingError" /\ dOut.val = Nil

\* a version 2 body that ends inside its MPLS/VLAN trailer is rejected, and
\* the same number of bytes would have been a complete version 1 body
EventLengthThresholdWitness ==
    /\ dIn.kind = "event"
    /\ Decoded
    /\ dIn.tag = 104
    /\ Len(dIn.data) = 57
    /\ dOut.err = "DecodingError"
    /\ dOut.val = Nil

\* C8: for DecodePacketRecord (fixed header 28 bytes) and
\* DecodeExtraDataRecord (fixed header 32 bytes), a body of length L at least
\* the header size decodes and the tail is exactly the L minus header-size
\* bytes after the header, whatever the record's own Length / DataLength
\* holds; a shorter body gives DecodingError and no record.
TailIsRemainder ==
    (dIn.kind \in {"packet", "extra"} /\ Decoded)
    => LET H == IF dIn.kind = "packet" THEN 28 ELSE 32
       IN  /\ Len(dIn.data) >= H
                => /\ dOut.err = "nil"
                   /\ Len(dOut.val.Data) = Len(dIn.data) - H
                   /\ \A i \in 1..(Len(dIn.data) - H) :
                         dOut.val.Data[i] = dIn.data[H + i]
           /\ Len(dIn.data) < H
                => dOut.err = "DecodingError" /\ dOut.val = Nil

\* a packet whose declared Length differs from the length of its tail
TailIsRemainderWitness ==
    /\ dIn.kind = "packet"
    /\ Decoded
    /\ dOut.err = "nil"
    /\ Len(dOut.val.Data) = 3
    /\ dOut.val.Length = 1000

\* the same for extra data, with a declared DataLength of zero
TailIsRemainderExtraWitness ==
    /\ dIn.kind = "extra"
    /\ Decoded
    /\ dOut.err = "nil"
    /\ Len(dOut.val.Data) = 2
    /\ dOut.val.DataLength = 0

====
